---- MODULE Spec2Model ----
(***************************************************************************)
(* Component Tester (src/main1403.py): the profile store ComponentDB over   *)
(* SQLite backing files and the operator workflow ComponentTesterApp.       *)
(*                                                                         *)
(* Representation.                                                         *)
(*   - A name or prefix is a sequence of one-character strings.            *)
(*   - A voltage is an integer number of hundredths of a volt: the value   *)
(*     c stands for the binary64 number nearest to c/100, which is what    *)
(*     round(float(text), 2) yields.  Comparisons of voltages are made on  *)
(*     those binary64 numbers (operator WithinTolerance).                  *)
(*   - The text of a pin entry field is a record [s, milli]: a decimal     *)
(*     literal with its value in thousandths of a volt, or a text float()  *)
(*     rejects ("" and "abc").                                             *)
(*   - The table `components` of a backing file is the sequence of its     *)
(*     rows in rowid order; the AUTOINCREMENT id itself is never read by   *)
(*     the program and is left out.  A path that holds no file yet and a   *)
(*     file with an empty table are both the empty sequence.               *)
(***************************************************************************)
EXTENDS Integers, Sequences, FiniteSets, TLC

VARIABLES
    files,               \* backing files on disk: path -> rows of table components
    connections,         \* ComponentDB.connections: the paths that hold a connection
    active_db,           \* ComponentDB.active_db: a path, or None
    name_var,            \* the name entry field
    pin_count_var,       \* the pin-count selector
    pin_entries,         \* the texts of the pin entry fields
    suggestion_listbox,  \* the autocomplete suggestions shown
    tree,                \* the result rows shown in the results table
    export_file,         \* the lines of the export destination, NoFile before it is written
    dialogs,             \* the prompts and message boxes of the last operator action
    ret                  \* outcome of the last direct ComponentDB call

vars == <<files, connections, active_db, name_var, pin_count_var, pin_entries,
          suggestion_listbox, tree, export_file, dialogs, ret>>

dbVars == <<files, connections, active_db>>
appVars == <<name_var, pin_count_var, pin_entries, suggestion_listbox, tree,
             export_file, dialogs>>

-----------------------------------------------------------------------------
(* Program constants *)

\* TOLERANCE = 0.2, in hundredths of a volt
TOLERANCE == 20

DEFAULT_PASSWORD == "1234"

\* os.path.join(DATABASE_FOLDER, "default.db")
default_db_path == "database/default.db"

\* values=[2,3,4,6,8] of the pin-count selector
PinCounts == {2, 3, 4, 6, 8}

\* percentage >= 90
HealthyPercent == 90

None == "<None>"

\* `not self.active_db`: None and the empty string are both falsy
Truthy(db) == db # None /\ db # ""

-----------------------------------------------------------------------------
(* Bounds of the model *)

\* Test is taken under Spec while the results table holds at most this many rows
MaxRows == 2

\* voltage lists handed to insert_component under SpecDB have at most MaxK pins
MaxK == 2

-----------------------------------------------------------------------------
(* Strings *)

Lower == <<"a","b","c","d","e","f","g","h","i","j","k","l","m",
           "n","o","p","q","r","s","t","u","v","w","x","y","z">>
Upper == <<"A","B","C","D","E","F","G","H","I","J","K","L","M",
           "N","O","P","Q","R","S","T","U","V","W","X","Y","Z">>

\* SQLite's LIKE folds the case of ASCII letters
Fold(ch) ==
    IF \E i \in 1..Len(Lower) : Lower[i] = ch
    THEN Upper[CHOOSE i \in 1..Len(Lower) : Lower[i] = ch]
    ELSE ch

\* name LIKE pattern: % matches any run of characters, _ any one character
RECURSIVE LikeMatch(_, _)
LikeMatch(pattern, s) ==
    IF pattern = <<>> THEN s = <<>>
    ELSE IF Head(pattern) = "%"
         THEN LikeMatch(Tail(pattern), s)
              \/ (s # <<>> /\ LikeMatch(pattern, Tail(s)))
         ELSE /\ s # <<>>
              /\ (Head(pattern) = "_" \/ Fold(Head(pattern)) = Fold(Head(s)))
              /\ LikeMatch(Tail(pattern), Tail(s))

\* str.strip(): whitespace removed at both ends
RECURSIVE LStrip(_)
LStrip(s) == IF s # <<>> /\ Head(s) = " " THEN LStrip(Tail(s)) ELSE s

RECURSIVE RStrip(_)
RStrip(s) ==
    IF s # <<>> /\ s[Len(s)] = " " THEN RStrip(SubSeq(s, 1, Len(s) - 1)) ELSE s

Strip(s) == RStrip(LStrip(s))

\* s starts with prefix, character by character
StartsWith(s, prefix) ==
    Len(prefix) <= Len(s) /\ SubSeq(s, 1, Len(prefix)) = prefix

Range(s) == {s[i] : i \in 1..Len(s)}

-----------------------------------------------------------------------------
(* ComponentDB: statements on the table of one backing file *)

Row(name, pin, voltage) == [name |-> name, pin |-> pin, voltage |-> voltage]

\* DELETE FROM components WHERE name = ?
DeleteRows(rows, name) == SelectSeq(rows, LAMBDA r : r.name # name)

\* one INSERT per voltage, pin = 1-based position
InsertRows(rows, name, voltages) ==
    rows \o [i \in 1..Len(voltages) |-> Row(name, i, voltages[i])]

\* ORDER BY pin: insertion of a row into rows already in pin order
RECURSIVE InsertByPin(_, _)
InsertByPin(sorted, r) ==
    IF sorted = <<>> THEN <<r>>
    ELSE IF r.pin < Head(sorted).pin THEN <<r>> \o sorted
         ELSE <<Head(sorted)>> \o InsertByPin(Tail(sorted), r)

RECURSIVE OrderByPin(_)
OrderByPin(rows) ==
    IF rows = <<>> THEN <<>>
    ELSE InsertByPin(OrderByPin(SubSeq(rows, 1, Len(rows) - 1)), rows[Len(rows)])

\* SELECT pin, voltage FROM components WHERE name = ? ORDER BY pin
SelectProfile(rows, name) ==
    LET hit == OrderByPin(SelectSeq(rows, LAMBDA r : r.name = name))
    IN  [i \in 1..Len(hit) |-> <<hit[i].pin, hit[i].voltage>>]

\* SELECT DISTINCT over a column: each value once, in scan order
RECURSIVE Distinct(_)
Distinct(s) ==
    IF s = <<>> THEN <<>>
    ELSE LET front == Distinct(SubSeq(s, 1, Len(s) - 1))
         IN  IF s[Len(s)] \in Range(front) THEN front
             ELSE Append(front, s[Len(s)])

\* SELECT DISTINCT name FROM components WHERE name LIKE prefix || '%'
SelectSimilar(rows, prefix) ==
    LET hit == SelectSeq(rows, LAMBDA r : LikeMatch(prefix \o <<"%">>, r.name))
    IN  Distinct([i \in 1..Len(hit) |-> hit[i].name])

-----------------------------------------------------------------------------
(* ComponentDB: the methods, as functions of the store *)

ActiveRows == files[active_db]

\* get_component_data(name) when active_db is db and the files hold fs
ProfileIn(fs, db, name) ==
    IF ~Truthy(db) THEN <<>> ELSE SelectProfile(fs[db], name)

get_component_data(name) == ProfileIn(files, active_db, name)

get_similar_names(prefix) ==
    IF ~Truthy(active_db) THEN <<>> ELSE SelectSimilar(ActiveRows, prefix)

\* insert_component without its DELETE: the rows of an earlier save stay
FilesAfterInsertKeepingOld(name, voltages) ==
    [files EXCEPT ![active_db] = InsertRows(@, name, voltages)]

\* insert_component on the first connection instead of the active one
FilesAfterInsertIntoDefault(name, voltages) ==
    [files EXCEPT ![default_db_path] = InsertRows(DeleteRows(@, name), name, voltages)]

\* the files after insert_component(name, voltages) on an active store
FilesAfterInsert(name, voltages) ==
    [files EXCEPT ![active_db] = InsertRows(DeleteRows(@, name), name, voltages)]

\* the files after delete_component(name)
FilesAfterDelete(name) ==
    IF ~Truthy(active_db) THEN files
    ELSE [files EXCEPT ![active_db] = DeleteRows(@, name)]

-----------------------------------------------------------------------------
(* binary64 arithmetic on decimal values.  A value is an integer count c    *)
(* of 1/unit volts (unit = 100 or 1000); the float the program holds is the *)
(* binary64 number nearest to c/unit.  Only the sign and size of its        *)
(* rounding error are needed, and those are computed with residues, so no   *)
(* 53-bit mantissa is ever formed.                                          *)

Abs(x) == IF x < 0 THEN 0 - x ELSE x

RECURSIVE Pow2(_)
Pow2(n) == IF n = 0 THEN 1 ELSE 2 * Pow2(n - 1)

RECURSIVE Pow2Mod(_, _)
Pow2Mod(k, m) == IF k = 0 THEN 1 % m ELSE (2 * Pow2Mod(k - 1, m)) % m

\* the binary exponent of c/unit for c > 0: the e with 2^e <= c/unit < 2^(e+1)
RECURSIVE ExpUp(_, _, _)
ExpUp(c, unit, e) == IF Pow2(e + 1) * unit <= c THEN ExpUp(c, unit, e + 1) ELSE e

RECURSIVE ExpDown(_, _, _)
ExpDown(c, unit, e) == IF c * Pow2(0 - e) < unit THEN ExpDown(c, unit, e - 1) ELSE e

BinExp(c, unit) == IF c >= unit THEN ExpUp(c, unit, 0) ELSE ExpDown(c, unit, 0)

\* (c * 2^(52 - e)) mod unit: what rounding c/unit to 53 bits cuts off, in
\* units of ulp/unit; 0 when c/unit is a binary64 number
Residue(c, unit) == ((c % unit) * Pow2Mod(52 - BinExp(c, unit), unit)) % unit

\* float(c/100) - c/100 in units of ulp(c/100)/100, round to nearest
RoundingError(c) ==
    IF c = 0 THEN 0
    ELSE LET r == Residue(Abs(c), 100)
             e == IF r < 50 THEN 0 - r ELSE 100 - r
         IN  IF c > 0 THEN e ELSE 0 - e

\* the same error in units of 2^(-59)/100, the ulp of 0.01 <= x < 0.0157
ScaledError(c) ==
    IF c = 0 THEN 0 ELSE RoundingError(c) * Pow2(BinExp(Abs(c), 100) + 7)

\* abs(val - ref) <= TOLERANCE on the binary64 values of val/100 and ref/100.
\* A decimal difference below or above 0.20 decides it; at exactly 0.20 the
\* float difference float(hi) - float(lo), rounded to nearest even in the
\* binade of 0.2 (ulp 2^(-55), half of it 800 units), is compared with
\* float(0.2), whose mantissa is even.
WithinTolerance(val, ref) ==
    LET hi == IF val >= ref THEN val ELSE ref
        lo == IF val >= ref THEN ref ELSE val
    IN  IF hi - lo < TOLERANCE THEN TRUE
        ELSE IF hi - lo > TOLERANCE THEN FALSE
        ELSE ScaledError(hi) - ScaledError(lo) <= ScaledError(TOLERANCE) + 800

\* round(x, 2) of the float of a literal with value milli/1000: correctly
\* rounded from the float's exact value, so a literal ending in 5 goes the
\* way its float lies, and to even when the float is exact
Round2(milli) ==
    LET a == Abs(milli)
        q == a \div 10
        d == a % 10
        r == Residue(a, 1000)
        h == IF d < 5 THEN q
             ELSE IF d > 5 THEN q + 1
             ELSE IF r = 0 THEN (IF q % 2 = 0 THEN q ELSE q + 1)
             ELSE IF r < 500 THEN q
             ELSE q + 1
    IN  IF milli >= 0 THEN h ELSE 0 - h

-----------------------------------------------------------------------------
(* Pin entry texts *)

NumText(milli) == [s |-> "dec", milli |-> milli]
Blank == [s |-> "", milli |-> 0]
Junk == [s |-> "abc", milli |-> 0]

\* float(text) raises ValueError
IsNumeric(text) == text.s = "dec"

\* a validation that looks at the first field only
FirstNumeric(entries) == entries = <<>> \/ IsNumeric(entries[1])

\* [round(float(v.get()), 2) for v in self.pin_entries] raises ValueError
AllNumeric(entries) == \A i \in 1..Len(entries) : IsNumeric(entries[i])

EnteredVoltages(entries) == [i \in 1..Len(entries) |-> Round2(entries[i].milli)]

\* str(voltage) of a stored voltage, as a field text
VoltageText(voltage) == NumText(voltage * 10)

\* render_pin_entries: one empty field per pin
BlankEntries(n) == [i \in 1..n |-> Blank]

-----------------------------------------------------------------------------
(* test_component: the comparison *)

\* expected = {pin: v for pin, v in reference_data}
ExpectedPins(reference_data) ==
    {reference_data[i][1] : i \in 1..Len(reference_data)}

\* expected.get(pin) for a pin of expected: the last pair of that pin
ExpectedAt(reference_data, pin) ==
    LET last == CHOOSE i \in 1..Len(reference_data) :
                    /\ reference_data[i][1] = pin
                    /\ \A j \in (i + 1)..Len(reference_data) :
                           reference_data[j][1] # pin
    IN  reference_data[last][2]

ResultRow(name, pin, val, ref, status) ==
    [name |-> name, pin |-> pin, input |-> val, expected |-> ref, status |-> status]

\* the loop over enumerate(entered_voltages, start=1) after its first n rounds:
\* matched, mismatches and the rows inserted into the results table
RECURSIVE CompareLoop(_, _, _, _)
CompareLoop(name, entered, reference_data, n) ==
    IF n = 0 THEN [matched |-> 0, mismatches |-> <<>>, rows |-> <<>>]
    ELSE LET prev == CompareLoop(name, entered, reference_data, n - 1)
             val == entered[n]
         IN  IF n \notin ExpectedPins(reference_data) THEN prev
             ELSE LET ref == ExpectedAt(reference_data, n)
                  IN  IF WithinTolerance(val, ref)
                      THEN [prev EXCEPT
                              !.matched = @ + 1,
                              !.rows = Append(@, ResultRow(name, n, val, ref, "OK"))]
                      ELSE [prev EXCEPT
                              !.mismatches = Append(@, <<n, ref, val>>),
                              !.rows = Append(@, ResultRow(name, n, val, ref, "Fail"))]

Compare(name, entered, reference_data) ==
    CompareLoop(name, entered, reference_data, Len(entered))

\* a verdict with the threshold at 80
IsHealthyFrom80(matched, nExpected) == matched * 100 >= 80 * nExpected

\* percentage = matched / len(expected) * 100 >= 90.  The quotient of two
\* small integers is either 9/10 exactly, whose float times 100 is 90.0, or
\* away from it by far more than a rounding error, so the float comparison
\* is the comparison of the integers.
IsHealthy(matched, nExpected) == matched * 100 >= HealthyPercent * nExpected

\* f"{percentage:.0f}": to the nearest integer, a half to the even one (the
\* percentages that end in .5 come from 8 expected pins and are exact floats)
PercentText(matched, nExpected) ==
    LET q == (matched * 100) \div nExpected
        twice == 2 * ((matched * 100) % nExpected)
    IN  IF twice < nExpected THEN q
        ELSE IF twice > nExpected THEN q + 1
        ELSE IF q % 2 = 0 THEN q ELSE q + 1

-----------------------------------------------------------------------------
(* Dialogs: what the operator is shown *)

Dialog(fn, title, text) ==
    [fn |-> fn, title |-> title, text |-> text, name |-> <<>>, path |-> "",
     percent |-> -1, mismatches |-> <<>>]

NameDialog(fn, title, text, name) == [Dialog(fn, title, text) EXCEPT !.name = name]

PathDialog(fn, title, text, path) == [Dialog(fn, title, text) EXCEPT !.path = path]

\* msg of test_component: the percentage, the verdict and, when faulty,
\* one line per mismatch
TestResultDialog(matched, nExpected, mismatches) ==
    IF IsHealthy(matched, nExpected)
    THEN [Dialog("showinfo", "Test Result", "Component is healthy")
            EXCEPT !.percent = PercentText(matched, nExpected)]
    ELSE [Dialog("showinfo", "Test Result", "Component is possibly faulty")
            EXCEPT !.percent = PercentText(matched, nExpected),
                   !.mismatches = mismatches]

\* a gate that lets a cancelled prompt through
DeniedUnlessCancelled(password) == password # DEFAULT_PASSWORD /\ password # None

\* password != DEFAULT_PASSWORD; a cancelled prompt yields None
Denied(password) == password # DEFAULT_PASSWORD

\* the dialogs of delete_component for a stripped, non-empty name; existing is
\* what get_component_data(name) returned
DeleteDialogs(existing, name, password) ==
    IF existing = <<>>
    THEN <<Dialog("showinfo", "Info", "Component not found in database.")>>
    ELSE IF Denied(password)
         THEN <<Dialog("askstring", "Password", "Enter password to delete:"),
                Dialog("showerror", "Denied", "Incorrect password. Deletion cancelled.")>>
         ELSE <<Dialog("askstring", "Password", "Enter password to delete:"),
                NameDialog("showinfo", "Deleted", "Component deleted from database.", name)>>

\* save_healthy asking for the password whether or not the name exists
SaveDialogsAlwaysAsking(existing, name, entries, password) ==
    IF ~AllNumeric(entries)
    THEN <<Dialog("showerror", "Error", "Invalid voltage values.")>>
    ELSE LET ask == <<Dialog("askstring", "Password", "Enter password to overwrite:")>>
         IN  IF Denied(password)
             THEN ask \o <<Dialog("showerror", "Denied", "Incorrect password. Save cancelled.")>>
             ELSE ask \o <<NameDialog("showinfo", "Saved", "Component saved as healthy.", name)>>

\* the dialogs of save_healthy for a stripped, non-empty name; existing is
\* what get_component_data(name) returned
SaveDialogs(existing, name, entries, password) ==
    IF ~AllNumeric(entries)
    THEN <<Dialog("showerror", "Error", "Invalid voltage values.")>>
    ELSE LET ask == IF existing # <<>>
                    THEN <<Dialog("askstring", "Password", "Enter password to overwrite:")>>
                    ELSE <<>>
         IN  IF ask # <<>> /\ Denied(password)
             THEN ask \o <<Dialog("showerror", "Denied", "Incorrect password. Save cancelled.")>>
             ELSE IF ~Truthy(active_db)
                  THEN ask \o <<Dialog("showerror", "Error",
                                       "Could not save component: No active database connected.")>>
                  ELSE ask \o <<NameDialog("showinfo", "Saved", "Component saved as healthy.", name)>>

-----------------------------------------------------------------------------
(* ComponentTesterApp: the handlers *)

\* clear_entries
ClearEntries ==
    /\ name_var' = <<>>
    /\ pin_entries' = [i \in 1..Len(pin_entries) |-> Blank]
    /\ suggestion_listbox' = <<>>

\* the name field changes to text; its KeyRelease binding runs
\* search_component_names
TypeName(text) ==
    /\ name_var' = text
    /\ suggestion_listbox' =
           IF Strip(text) = <<>> \/ ~Truthy(active_db) THEN <<>>
           ELSE get_similar_names(Strip(text))
    /\ dialogs' = <<>>
    /\ UNCHANGED <<dbVars, pin_count_var, pin_entries, tree, export_file, ret>>

\* a pin count is picked in the selector; render_pin_entries
SelectPinCount(k) ==
    /\ pin_count_var' = k
    /\ pin_entries' = BlankEntries(k)
    /\ dialogs' = <<>>
    /\ UNCHANGED <<dbVars, name_var, suggestion_listbox, tree, export_file, ret>>

\* the operator fills the pin entry fields
FillEntries(texts) ==
    /\ Len(texts) = Len(pin_entries)
    /\ pin_entries' = texts
    /\ dialogs' = <<>>
    /\ UNCHANGED <<dbVars, name_var, pin_count_var, suggestion_listbox, tree,
                   export_file, ret>>

\* the fields load_selected_component fills from data
LoadedEntries(data) ==
    [j \in 1..Len(data) |->
        IF j \in ExpectedPins(data) THEN VoltageText(ExpectedAt(data, j)) ELSE Blank]

\* suggestion i is selected: load_selected_component
load_selected_component(i) ==
    /\ i \in 1..Len(suggestion_listbox)
    /\ LET selected == suggestion_listbox[i]
           data == get_component_data(selected)
       IN  /\ name_var' = selected
           /\ pin_count_var' = Len(data)
           /\ pin_entries' = LoadedEntries(data)
    /\ dialogs' = <<>>
    /\ UNCHANGED <<dbVars, suggestion_listbox, tree, export_file, ret>>

\* save_healthy gets as far as insert_component and it succeeds
SaveProceeds(existing, entries, password) ==
    /\ AllNumeric(entries)
    /\ existing = <<>> \/ ~Denied(password)
    /\ Truthy(active_db)

save_healthy(password) ==
    LET name == Strip(name_var)
        existing == get_component_data(name)
    IN  IF name = <<>>
        THEN /\ dialogs' = <<Dialog("showwarning", "Warning", "Enter a component name.")>>
             /\ UNCHANGED <<dbVars, name_var, pin_count_var, pin_entries,
                            suggestion_listbox, tree, export_file, ret>>
        ELSE /\ dialogs' = SaveDialogs(existing, name, pin_entries, password)
             /\ IF SaveProceeds(existing, pin_entries, password)
                THEN /\ files' = FilesAfterInsert(name, EnteredVoltages(pin_entries))
                     /\ ClearEntries
                ELSE UNCHANGED <<files, name_var, pin_entries, suggestion_listbox>>
             /\ UNCHANGED <<connections, active_db, pin_count_var, tree, export_file, ret>>

test_component ==
    LET name == Strip(name_var)
        reference_data == get_component_data(name)
        result == Compare(name, EnteredVoltages(pin_entries), reference_data)
    IN  /\ IF name = <<>>
           THEN /\ dialogs' = <<Dialog("showwarning", "Warning", "Enter a component name.")>>
                /\ tree' = tree
           ELSE IF ~AllNumeric(pin_entries)
           THEN /\ dialogs' = <<Dialog("showerror", "Error", "Invalid voltage values.")>>
                /\ tree' = tree
           ELSE IF reference_data = <<>>
           THEN /\ dialogs' = <<Dialog("showwarning", "Not found",
                                       "Component not found in database.")>>
                /\ tree' = tree
           ELSE /\ tree' = tree \o result.rows
                /\ dialogs' = <<TestResultDialog(result.matched,
                                                 Cardinality(ExpectedPins(reference_data)),
                                                 result.mismatches)>>
        /\ UNCHANGED <<dbVars, name_var, pin_count_var, pin_entries,
                       suggestion_listbox, export_file, ret>>

\* ", ".join(str(v) for v in values): the fields of a row, in column order
FormatLine(row) == <<row.name, row.pin, row.input, row.expected, row.status>>

\* export_results without the loop that deletes the rows of the table
ExportKeepingRows(path) ==
    /\ IF tree = <<>>
       THEN /\ dialogs' = <<Dialog("showwarning", "No data", "No results to export.")>>
            /\ UNCHANGED <<tree, export_file>>
       ELSE IF path = ""
       THEN /\ dialogs' = <<Dialog("asksaveasfilename", "", "")>>
            /\ UNCHANGED <<tree, export_file>>
       ELSE /\ export_file' = [written |-> TRUE,
                               lines |-> [i \in 1..Len(tree) |->
                                             <<tree[i].name, tree[i].pin, tree[i].input,
                                               tree[i].expected, tree[i].status>>]]
            /\ tree' = tree
            /\ dialogs' = <<Dialog("asksaveasfilename", "", ""),
                            PathDialog("showinfo", "Exported", "Results saved to", path)>>
    /\ UNCHANGED <<dbVars, name_var, pin_count_var, pin_entries, suggestion_listbox, ret>>

\* path is what asksaveasfilename returns, "" when the operator cancels
export_results(path) ==
    /\ IF tree = <<>>
       THEN /\ dialogs' = <<Dialog("showwarning", "No data", "No results to export.")>>
            /\ UNCHANGED <<tree, export_file>>
       ELSE IF path = ""
       THEN /\ dialogs' = <<Dialog("asksaveasfilename", "", "")>>
            /\ UNCHANGED <<tree, export_file>>
       ELSE /\ export_file' = [written |-> TRUE,
                               lines |-> [i \in 1..Len(tree) |-> FormatLine(tree[i])]]
            /\ tree' = <<>>
            /\ dialogs' = <<Dialog("asksaveasfilename", "", ""),
                            PathDialog("showinfo", "Exported", "Results saved to", path)>>
    /\ UNCHANGED <<dbVars, name_var, pin_count_var, pin_entries, suggestion_listbox, ret>>

\* ComponentDB.connect: sqlite3.connect opens the file, or a fresh private
\* temporary database for the empty path; CREATE TABLE IF NOT EXISTS keeps
\* the rows there are
connect(db_path) ==
    /\ connections' = connections \cup {db_path}
    /\ active_db' = db_path
    /\ files' = IF db_path = "" THEN [files EXCEPT ![""] = <<>>] ELSE files

\* path is what askopenfilename returns, "" when the operator cancels
import_database(path) ==
    /\ IF path = ""
       THEN /\ dialogs' = <<Dialog("askopenfilename", "", "")>>
            /\ UNCHANGED dbVars
       ELSE /\ connect(path)
            /\ dialogs' = <<Dialog("askopenfilename", "", ""),
                            PathDialog("showinfo", "Connected", "Connected to database:", path)>>
    /\ UNCHANGED <<name_var, pin_count_var, pin_entries, suggestion_listbox, tree,
                   export_file, ret>>

delete_component(password) ==
    LET name == Strip(name_var)
        existing == get_component_data(name)
    IN  IF name = <<>>
        THEN /\ dialogs' = <<Dialog("showwarning", "Warning",
                                    "Enter a component name to delete.")>>
             /\ UNCHANGED <<dbVars, name_var, pin_count_var, pin_entries,
                            suggestion_listbox, tree, export_file, ret>>
        ELSE /\ dialogs' = DeleteDialogs(existing, name, password)
             /\ IF existing # <<>> /\ ~Denied(password)
                THEN /\ files' = FilesAfterDelete(name)
                     /\ ClearEntries
                ELSE UNCHANGED <<files, name_var, pin_entries, suggestion_listbox>>
             /\ UNCHANGED <<connections, active_db, pin_count_var, tree, export_file, ret>>

-----------------------------------------------------------------------------
(* ComponentDB called directly: each call leaves its outcome in ret *)

Outcome(op, name, voltages, before, raised, value) ==
    [op |-> op, name |-> name, voltages |-> voltages, before |-> before,
     raised |-> raised, value |-> value]

NoCall == Outcome("", <<>>, <<>>, <<>>, "", <<>>)

DbConnect(db_path) ==
    /\ connect(db_path)
    /\ ret' = Outcome("connect", <<>>, <<>>, <<>>, "", <<db_path>>)
    /\ UNCHANGED appVars

\* insert_component without its check of active_db
DbInsertUnguarded(name, voltages) ==
    /\ ret' = Outcome("insert_component", name, voltages, <<>>, "", <<>>)
    /\ files' = FilesAfterInsert(name, voltages)
    /\ UNCHANGED <<connections, active_db, appVars>>

\* before: the profile the name held when the call was made
DbInsert(name, voltages) ==
    /\ IF ~Truthy(active_db)
       THEN /\ ret' = Outcome("insert_component", name, voltages, <<>>,
                              "Exception: No active database connected.", <<>>)
            /\ UNCHANGED files
       ELSE /\ ret' = Outcome("insert_component", name, voltages,
                              get_component_data(name), "", <<>>)
            /\ files' = FilesAfterInsert(name, voltages)
    /\ UNCHANGED <<connections, active_db, appVars>>

DbGet(name) ==
    /\ ret' = Outcome("get_component_data", name, <<>>, <<>>, "", get_component_data(name))
    /\ UNCHANGED <<dbVars, appVars>>

DbSimilar(prefix) ==
    /\ ret' = Outcome("get_similar_names", prefix, <<>>, <<>>, "", get_similar_names(prefix))
    /\ UNCHANGED <<dbVars, appVars>>

DbDelete(name) ==
    /\ ret' = Outcome("delete_component", name, <<>>, get_component_data(name), "", <<>>)
    /\ files' = FilesAfterDelete(name)
    /\ UNCHANGED <<connections, active_db, appVars>>

-----------------------------------------------------------------------------
(* The inputs explored *)

other_db_path == "bench/other.db"

FilePaths == {default_db_path, other_db_path, ""}

\* the first j fields hold text s, the others text t
Prefilled(k, j, s, t) == [i \in 1..k |-> IF i <= j THEN s ELSE t]

Passwords == {DEFAULT_PASSWORD, "12345", None}

ExportPaths == {"", "results.txt"}

(* Spec: the operator at the application *)

SpecPinCounts == {2, 3}

NameInputs == {<<>>, <<" ", "R", "1">>}

SpecNumTexts == {NumText(5004)}

SpecVectors(k) ==
    {Prefilled(k, k, s, s) : s \in SpecNumTexts}
        \cup {Prefilled(k, k - 1, s, Junk) : s \in SpecNumTexts}

(* SpecTest: Test runs against a profile saved earlier *)

TestName == <<"R", "1">>

RefVolts == {500, 100}

RefProfiles ==
    {Prefilled(k, j, a, b) : k \in PinCounts, j \in 0..8, a \in RefVolts, b \in RefVolts}

TestTexts == {NumText(5004), NumText(5190), NumText(5196), NumText(1200), Junk}

TestVectors(k) == {Prefilled(k, j, s, t) : j \in 0..k, s \in TestTexts, t \in TestTexts}

(* SpecDB: a caller of ComponentDB *)

DbPaths == {default_db_path, ""}

DbNames == {<<"R", "1">>, <<"r", "2">>}

DbPrefixes == {<<"R">>, <<"r", "2">>, <<"_">>, <<"R", "_">>, <<"x">>}

DbVolts == {100, 520}

VoltageLists == UNION {[1..k -> DbVolts] : k \in 0..MaxK}

-----------------------------------------------------------------------------
(* Specifications *)

\* ComponentTesterApp.__init__: ComponentDB() connects default.db, created
\* empty at import; build_gui sets pin count 2 and renders two empty fields
Init ==
    /\ files = [p \in FilePaths |-> <<>>]
    /\ connections = {default_db_path}
    /\ active_db = default_db_path
    /\ name_var = <<>>
    /\ pin_count_var = 2
    /\ pin_entries = BlankEntries(2)
    /\ suggestion_listbox = <<>>
    /\ tree = <<>>
    /\ export_file = [written |-> FALSE, lines |-> <<>>]
    /\ dialogs = <<>>
    /\ ret = NoCall

Next ==
    \/ \E text \in NameInputs : TypeName(text)
    \/ \E k \in SpecPinCounts : SelectPinCount(k)
    \/ \E texts \in SpecVectors(Len(pin_entries)) : FillEntries(texts)
    \/ \E i \in 1..Len(suggestion_listbox) : load_selected_component(i)
    \/ \E password \in Passwords : save_healthy(password)
    \/ Len(tree) <= MaxRows /\ test_component
    \/ \E path \in ExportPaths : export_results(path)
    \/ \E path \in {"", default_db_path, other_db_path} : import_database(path)
    \/ \E password \in Passwords : delete_component(password)

Spec == Init /\ [][Next]_vars

\* the application starts on a default.db that holds a profile saved in an
\* earlier session, the name typed and the fields filled
InitTest ==
    /\ \E voltages \in RefProfiles :
           files = [p \in FilePaths |->
                       IF p = default_db_path THEN InsertRows(<<>>, TestName, voltages)
                       ELSE <<>>]
    /\ connections = {default_db_path}
    /\ active_db = default_db_path
    /\ name_var = TestName
    /\ pin_count_var \in PinCounts
    /\ pin_entries \in TestVectors(pin_count_var)
    /\ suggestion_listbox = <<>>
    /\ tree = <<>>
    /\ export_file = [written |-> FALSE, lines |-> <<>>]
    /\ dialogs = <<>>
    /\ ret = NoCall

NextTest ==
    \/ tree = <<>> /\ test_component
    \/ \E path \in ExportPaths : export_results(path)

SpecTest == InitTest /\ [][NextTest]_vars

NextDB ==
    \/ \E db_path \in DbPaths : DbConnect(db_path)
    \/ \E name \in DbNames, voltages \in VoltageLists : DbInsert(name, voltages)
    \/ \E name \in DbNames : DbGet(name)
    \/ \E prefix \in DbPrefixes : DbSimilar(prefix)
    \/ \E name \in DbNames : DbDelete(name)

SpecDB == Init /\ [][NextDB]_vars

-----------------------------------------------------------------------------
(* Properties *)

IsPrefix(s, t) == Len(s) <= Len(t) /\ SubSeq(t, 1, Len(s)) = s

\* the (pin, voltage) pairs of a voltage list: pin = 1-based position
Pairs(voltages) == [i \in 1..Len(voltages) |-> <<i, voltages[i]>>]

StoredNames(rows) == {rows[i].name : i \in 1..Len(rows)}

SomeNonNumeric == \E i \in 1..Len(pin_entries) : pin_entries[i].s # "dec"

WrongPasswords == {password \in Passwords : password # "1234"}

\* d is exactly one dialog, with this title
ShownIn(d, title) == Len(d) = 1 /\ d[1].title = title

\* what the last operator action showed
Shown(title) == ShownIn(dialogs, title)

\* C1: after insert_component(N, [v1..vK]) on an active store, whatever the
\* store held, get_component_data(N) is exactly (1,v1),...,(K,vK) in pin
\* order, and the profile of every other name is what it was.
C1_UpsertReplaces ==
    [][\A n \in DbNames, voltages \in VoltageLists :
          (/\ ret'.op = "insert_component"
           /\ ret'.raised = ""
           /\ ret'.name = n
           /\ ret'.voltages = voltages)
             => /\ ProfileIn(files', active_db', n) = Pairs(voltages)
                /\ \A m \in DbNames \ {n} :
                       ProfileIn(files', active_db', m) = get_component_data(m)]_vars

\* a save of one pin over a profile of two, with the other name stored too
C1_Witness ==
    /\ ret.op = "insert_component"
    /\ ret.raised = ""
    /\ Len(ret.voltages) = 1
    /\ Len(ret.before) = 2
    /\ \E m \in DbNames \ {ret.name} : get_component_data(m) # <<>>

\* C2: Delete, or Save-as-Healthy over an existing name, with a password
\* other than the configured one (a cancelled prompt included) changes
\* nothing in the store: a step that changes a file or the active store,
\* the two things get_component_data reads, is no such action.
C2_WrongPasswordKeepsStore ==
    [][(files' # files \/ active_db' # active_db)
          => \A password \in WrongPasswords :
                 ~(/\ get_component_data(Strip(name_var)) # <<>>
                   /\ delete_component(password) \/ save_healthy(password))]_vars

\* a deletion was denied and the profile is there
C2_Witness ==
    /\ Len(dialogs) = 2
    /\ dialogs[2].text = "Incorrect password. Deletion cancelled."
    /\ get_component_data(Strip(name_var)) # <<>>

\* C3: every operation reads and writes the active backing file only: a
\* step never changes a file other than the active one, Import makes the
\* chosen path the active one and changes no file, and Test compares against
\* the active file's profile, reporting "Not found" when that file has none
\* whatever another file holds.
C3_ActiveFileOnly ==
    [][/\ \A p \in FilePaths : p # active_db => files'[p] = files[p]
       /\ \A path \in {default_db_path, other_db_path} :
              import_database(path) => active_db' = path /\ files' = files
       /\ (Strip(name_var) # <<>> /\ ~SomeNonNumeric /\ test_component)
              => LET held == SelectProfile(files[active_db], Strip(name_var))
                 IN  IF held = <<>>
                     THEN tree' = tree /\ ShownIn(dialogs', "Not found")
                     ELSE /\ IsPrefix(tree, tree')
                          /\ \A i \in (Len(tree) + 1)..Len(tree') :
                                 <<tree'[i].pin, tree'[i].expected>> \in Range(held)]_vars

\* Test reports "Not found" on the second file for a name the first one holds
C3_Witness ==
    /\ active_db = other_db_path
    /\ SelectProfile(files[default_db_path], Strip(name_var)) # <<>>
    /\ SelectProfile(files[other_db_path], Strip(name_var)) = <<>>
    /\ Shown("Not found")

\* C4: get_similar_names(prefix) returns exactly the stored names that start
\* with prefix, compared character by character with case, each name once.
C4_LiteralPrefix ==
    (ret.op = "get_similar_names" /\ Truthy(active_db))
        => /\ Range(ret.value) = {n \in StoredNames(ActiveRows) : StartsWith(n, ret.name)}
           /\ \A i, j \in 1..Len(ret.value) : ret.value[i] = ret.value[j] => i = j

\* C5: a pin is matched iff the entered and the expected voltage differ by at
\* most 0.20 V (0.20 itself counts as matched); the verdict is healthy iff
\* matched / len(expected) * 100 >= 90; only pins of expected get a row.
C5_DecimalTolerance ==
    Shown("Test Result")
        => LET expected == get_component_data(Strip(name_var))
               entered == EnteredVoltages(pin_entries)
               matched == Cardinality({p \in 1..Len(entered) :
                              /\ p \in ExpectedPins(expected)
                              /\ Abs(entered[p] - ExpectedAt(expected, p)) <= 20})
           IN  /\ \A i \in 1..Len(tree) :
                      /\ tree[i].pin \in ExpectedPins(expected)
                      /\ tree[i].status = "OK"
                             <=> Abs(tree[i].input - tree[i].expected) <= 20
               /\ dialogs[1].text = "Component is healthy"
                      <=> matched * 100 >= 90 * Cardinality(ExpectedPins(expected))


\* C6 as claimed: with no active store no operation other than connect
\* raises; reads return an empty result and mutations are no-ops.
C6_NeverThrows ==
    (~Truthy(active_db) /\ ret.op \notin {"", "connect"})
        => /\ ret.raised = ""
           /\ ret.value = <<>>

\* C6 as amended: with no active store get_component_data and
\* get_similar_names return an empty list and delete_component returns
\* without raising; insert_component raises "No active database connected.";
\* none of them changes any store.
C6_LenientExceptInsert ==
    [][(~Truthy(active_db) /\ ret'.op \notin {"", "connect"})
          => /\ files' = files
             /\ ret'.value = <<>>
             /\ ret'.op \in {"get_component_data", "get_similar_names", "delete_component"}
                    => ret'.raised = ""
             /\ ret'.op = "insert_component"
                    => ret'.raised = "Exception: No active database connected."]_vars

\* insert_component was called with the empty path active, and raised
C6_Witness ==
    /\ active_db = ""
    /\ ret.op = "insert_component"
    /\ ret.voltages # <<>>
    /\ ret.raised # ""

\* C7: the results table only grows by the rows a Test appends, in
\* ascending pin order, and is only emptied by Export; Export on an empty
\* table reports "No data" and writes nothing; Export on a non-empty table
\* to a chosen destination writes exactly its rows, one line each in order,
\* empties the table and leaves every stored profile as it was.
C7_ResultsAppendOnly ==
    [][/\ tree' # tree
          => \/ /\ test_component
                /\ IsPrefix(tree, tree')
                /\ \A i, j \in (Len(tree) + 1)..Len(tree') :
                       i < j => tree'[i].pin < tree'[j].pin
             \/ /\ \E path \in ExportPaths \ {""} : export_results(path)
                /\ tree' = <<>>
       /\ \A path \in ExportPaths :
              (tree = <<>> /\ export_results(path))
                  => /\ ShownIn(dialogs', "No data")
                     /\ export_file' = export_file
                     /\ tree' = tree
                     /\ files' = files
       /\ \A path \in ExportPaths \ {""} :
              (tree # <<>> /\ export_results(path))
                  => /\ export_file' =
                            [written |-> TRUE,
                             lines |-> [i \in 1..Len(tree) |->
                                           <<tree[i].name, tree[i].pin, tree[i].input,
                                             tree[i].expected, tree[i].status>>]]
                     /\ tree' = <<>>
                     /\ files' = files]_vars

\* the rows of two Test runs were exported and the table is empty again
C7_Witness ==
    /\ export_file.written
    /\ Len(export_file.lines) >= 4
    /\ tree = <<>>
    /\ Len(dialogs) = 2
    /\ dialogs[2].title = "Exported"
    /\ get_component_data(<<"R", "1">>) # <<>>

\* C8: Save-as-Healthy or Test with a non-numeric pin entry, and Test or
\* Delete on a name the active store has no profile for, change no stored
\* profile and no result row: a step that changes a file, the results
\* table, the export file or the active store is none of these.
C8_ErrorsChangeNothing ==
    [][LET name == Strip(name_var)
           changed == \/ files' # files
                      \/ tree' # tree
                      \/ export_file' # export_file
                      \/ active_db' # active_db
       IN  changed
               => /\ \A password \in Passwords :
                         ~(name # <<>> /\ SomeNonNumeric /\ save_healthy(password))
                  /\ ~(name # <<>> /\ SomeNonNumeric /\ test_component)
                  /\ ~(/\ name # <<>>
                        /\ SelectProfile(ActiveRows, name) = <<>>
                        /\ test_component)
                  /\ \A password \in Passwords :
                         ~(/\ name # <<>>
                           /\ SelectProfile(ActiveRows, name) = <<>>
                           /\ delete_component(password))]_vars

\* "Invalid voltage values." was reported for fields whose first pin is
\* numeric and whose last is not, with a profile stored and rows in the table
C8_Witness ==
    /\ Len(dialogs) = 1
    /\ dialogs[1].text = "Invalid voltage values."
    /\ Len(pin_entries) >= 2
    /\ pin_entries[1].s = "dec"
    /\ pin_entries[Len(pin_entries)].s # "dec"
    /\ get_component_data(Strip(name_var)) # <<>>
    /\ tree # <<>>

\* C9 as claimed: with a wrong password, Delete and Save-as-Healthy on a name show the
\* operator the same dialogs on the active store and on the store that
\* differs from it only in holding no profile for that name.
C9_NoExistenceLeak ==
    \A password \in WrongPasswords :
        LET name == Strip(name_var)
            here == SelectProfile(ActiveRows, name)
            twin == SelectProfile(DeleteRows(ActiveRows, name), name)
        IN  name # <<>>
                => /\ DeleteDialogs(here, name, password)
                          = DeleteDialogs(twin, name, password)
                   /\ SaveDialogs(here, name, pin_entries, password)
                          = SaveDialogs(twin, name, pin_entries, password)

Titles(d) == [i \in 1..Len(d) |-> d[i].title]

\* the dialogs carry no name, path or voltage
CarryNothing(d) ==
    \A i \in 1..Len(d) : d[i].name = <<>> /\ d[i].path = "" /\ d[i].mismatches = <<>>

\* C9 as amended: with a wrong password, Delete or Save-as-Healthy on a name
\* that has a profile shows the password prompt and then a fixed denial, the
\* same for every file that holds the name whatever it holds; that the name
\* exists is revealed: without a profile Delete reports "Component not found"
\* and Save-as-Healthy saves, neither asking for the password.
C9_GateHidesContents ==
    \A password \in WrongPasswords :
        LET name == Strip(name_var)
            here == SelectProfile(ActiveRows, name)
            twin == SelectProfile(DeleteRows(ActiveRows, name), name)
            holders == {SelectProfile(files[p], name) : p \in FilePaths} \ {<<>>}
        IN  name # <<>>
                => /\ \A held \in holders :
                          /\ Titles(DeleteDialogs(held, name, password))
                                 = <<"Password", "Denied">>
                          /\ CarryNothing(DeleteDialogs(held, name, password))
                          /\ \A other \in holders :
                                 DeleteDialogs(held, name, password)
                                     = DeleteDialogs(other, name, password)
                   /\ ~SomeNonNumeric
                          => \A held \in holders :
                                 /\ Titles(SaveDialogs(held, name, pin_entries, password))
                                        = <<"Password", "Denied">>
                                 /\ CarryNothing(SaveDialogs(held, name, pin_entries, password))
                                 /\ \A other \in holders :
                                        SaveDialogs(held, name, pin_entries, password)
                                            = SaveDialogs(other, name, pin_entries, password)
                   /\ Titles(DeleteDialogs(twin, name, password)) = <<"Info">>
                   /\ ~SomeNonNumeric
                          => Titles(SaveDialogs(twin, name, pin_entries, password)) = <<"Saved">>

\* an overwrite was denied while the two files hold different profiles of the name
C9_Witness ==
    /\ Len(dialogs) = 2
    /\ dialogs[2].text = "Incorrect password. Save cancelled."
    /\ SelectProfile(files[default_db_path], Strip(name_var)) # <<>>
    /\ SelectProfile(files[other_db_path], Strip(name_var)) # <<>>
    /\ SelectProfile(files[default_db_path], Strip(name_var))
           # SelectProfile(files[other_db_path], Strip(name_var))

\* C10: for a profile of N pins saved through the interface, N in
\* {2,3,4,6,8}, the verdict of a Test is healthy iff all N pins were matched;
\* a pin that failed, or an expected pin with no entered value, makes it
\* possibly faulty, so a healthy verdict comes with no Fail row of that run.
C10_HealthyIffAllPins ==
    Shown("Test Result")
        => LET N == Len(get_component_data(Strip(name_var)))
               ok == Cardinality({i \in 1..Len(tree) : tree[i].status = "OK"})
               healthy == dialogs[1].text = "Component is healthy"
           IN  /\ N \in {2, 3, 4, 6, 8}
               /\ healthy <=> ok = N
               /\ healthy => \A i \in 1..Len(tree) : tree[i].status # "Fail"
               /\ Len(pin_entries) < N => ~healthy
               /\ healthy => dialogs[1].percent = 100

\* seven of eight pins matched: 88%, possibly faulty
C10_Witness ==
    /\ Shown("Test Result")
    /\ Len(get_component_data(Strip(name_var))) = 8
    /\ Cardinality({i \in 1..Len(tree) : tree[i].status = "OK"}) = 7
    /\ Len(tree) = 8
    /\ dialogs[1].percent = 88
    /\ dialogs[1].text = "Component is possibly faulty"

====
